---- MODULE Spec2Model ----
(***************************************************************************)
(* Model of smirnown/phone_usage (main.py): phone-number parsing, call     *)
(* classification, call duration, per-call charge, bill merging and the    *)
(* batch run that aggregates call records into one bill per account.       *)
(*                                                                         *)
(* Strings are sequences of one-character strings.  Money is a Decimal     *)
(* with two places, held as an integer number of cents.  A Python float    *)
(* is held as a binary fixed-point number (see the section on floats).     *)
(* An exception is a value of the field err ("none" when nothing raised).  *)
(***************************************************************************)
EXTENDS Integers, Sequences, FiniteSets, TLC

VARIABLES
    \* PhoneNumber(phone_number)
    phone_number, parsed, pn_done,
    \* CallInfo.get_call_type()
    origination_number, termination_number, call_type, ct_done,
    \* CallInfo.get_call_duration()
    call_start, call_stop, duration, dur_done,
    \* CallInfo.calculate_charge_for_call()
    ch_info, ch_charge, ch_done,
    \* CustomerBill.update(new_call_info) called directly
    ub_self, ub_other, ub_before, ub_other_before, ub_raised, ub_calls,
    \* run_billing(file) / calculate_bills(call_infos)
    lines, pc, call_infos, account_number_to_customer_bill_map, bills,
    error, out_open, out_lines, last_update, pos

vars == << phone_number, parsed, pn_done,
           origination_number, termination_number, call_type, ct_done,
           call_start, call_stop, duration, dur_done,
           ch_info, ch_charge, ch_done,
           ub_self, ub_other, ub_before, ub_other_before, ub_raised, ub_calls,
           lines, pc, call_infos, account_number_to_customer_bill_map, bills,
           error, out_open, out_lines, last_update, pos >>

pnVars == << phone_number, parsed, pn_done >>
ctVars == << origination_number, termination_number, call_type, ct_done >>
durVars == << call_start, call_stop, duration, dur_done >>
chVars == << ch_info, ch_charge, ch_done >>
ubVars == << ub_self, ub_other, ub_before, ub_other_before, ub_raised, ub_calls >>
runVars == << lines, pc, call_infos, account_number_to_customer_bill_map, bills,
              error, out_open, out_lines, last_update, pos >>

(***************************************************************************)
(* Bounds of the model.                                                    *)
(***************************************************************************)
MaxPhoneLen == 5
MaxPairLen == 4
MaxDay == 1
MaxUpdates == 2
MaxRows == 3

Min(a, b) == IF a < b THEN a ELSE b

\* Python's s[a:b] for 0 <= a <= b: out-of-range bounds are clipped.
Slice(s, a, b) ==
    LET lo == Min(a, Len(s))
        hi == Min(b, Len(s))
    IN  [k \in 1..(hi - lo) |-> s[lo + k]]

\* Python's s[a:].
SliceFrom(s, a) == Slice(s, a, Len(s))

(***************************************************************************)
(* PhoneNumber                                                            *)
(***************************************************************************)
RECURSIVE LStrip(_, _)
LStrip(s, c) ==
    IF s # << >> /\ Head(s) = c THEN LStrip(Tail(s), c) ELSE s

RECURSIVE RStrip(_, _)
RStrip(s, c) ==
    IF s # << >> /\ s[Len(s)] = c THEN RStrip(SubSeq(s, 1, Len(s) - 1), c) ELSE s

\* str.strip(chars) with a single character: every leading and every
\* trailing occurrence is removed.
Strip(s, c) == RStrip(LStrip(s, c), c)

\* PhoneNumber.__init__: phone_number[0] raises IndexError on the empty
\* string, the two slices never raise.
PhoneNumber(s) ==
    LET p == Strip(s, "+")
    IN  IF p = << >>
        THEN [err |-> "IndexError", country_code |-> << >>,
              area_code |-> << >>, number |-> << >>]
        ELSE [err |-> "none", country_code |-> << p[1] >>,
              area_code |-> Slice(p, 1, 4), number |-> SliceFrom(p, 4)]

(***************************************************************************)
(* CallInfo.get_call_type                                                  *)
(***************************************************************************)
\* A bug: the area codes are compared before the country codes.
get_call_type_area_first(info) ==
    LET origin_number == PhoneNumber(info.origination_number)
        term_number == PhoneNumber(info.termination_number)
    IN  IF origin_number.err # "none" THEN origin_number.err
        ELSE IF term_number.err # "none" THEN term_number.err
        ELSE IF origin_number.area_code # term_number.area_code THEN "domestic"
        ELSE IF origin_number.country_code # term_number.country_code
             THEN "international"
        ELSE "local"

get_call_type(info) ==
    LET origin_number == PhoneNumber(info.origination_number)
        term_number == PhoneNumber(info.termination_number)
    IN  IF origin_number.err # "none" THEN origin_number.err
        ELSE IF term_number.err # "none" THEN term_number.err
        ELSE IF origin_number.country_code # term_number.country_code
             THEN "international"
        ELSE IF origin_number.area_code # term_number.area_code THEN "domestic"
        ELSE "local"

(***************************************************************************)
(* CallInfo.get_call_duration                                              *)
(*                                                                         *)
(* A timestamp string is held as what datetime.fromisoformat makes of it:  *)
(* ok = FALSE is a string it rejects (ValueError); otherwise the day       *)
(* (ordinal), the second of the day and the microsecond.                   *)
(***************************************************************************)
SecondsPerDay == 86400
MicrosPerSecond == 1000000
SecondsPerMinute == 60

\* datetime.timedelta(days, seconds, microseconds): the constructor
\* normalises with divmod, so 0 <= microseconds < 10^6, 0 <= seconds < 86400
\* and days carries the sign.
timedelta(days, seconds, microseconds) ==
    LET s1 == seconds + (microseconds \div MicrosPerSecond)
    IN  [days |-> days + (s1 \div SecondsPerDay),
         seconds |-> s1 % SecondsPerDay,
         microseconds |-> microseconds % MicrosPerSecond]

\* datetime.__sub__ of two naive datetimes.
DatetimeSub(stop, start) ==
    timedelta(stop.day - start.day, stop.sec - start.sec, stop.us - start.us)

\* math.ceil(n / 60) for an int 0 <= n < 86400: the float quotient is
\* correctly rounded and, when not an integer, at least 1/60 away from one,
\* so the ceiling of the float is the ceiling of the exact quotient.
CeilDiv(n, d) == IF n % d = 0 THEN n \div d ELSE (n \div d) + 1

\* A bug: the quotient is truncated instead of rounded up (int(x / 60)).
get_call_duration_floor(info) ==
    IF ~info.call_start.ok \/ ~info.call_stop.ok
    THEN [err |-> "ValueError", value |-> 0]
    ELSE LET difference == DatetimeSub(info.call_stop, info.call_start)
         IN  [err |-> "none", value |-> difference.seconds \div SecondsPerMinute]

get_call_duration(info) ==
    IF ~info.call_start.ok \/ ~info.call_stop.ok
    THEN [err |-> "ValueError", value |-> 0]
    ELSE LET difference == DatetimeSub(info.call_stop, info.call_start)
         IN  [err |-> "none", value |-> CeilDiv(difference.seconds, SecondsPerMinute)]

(***************************************************************************)
(* Python floats and Decimal.quantize                                      *)
(*                                                                         *)
(* A non-negative binary number is a sequence of bits, least significant   *)
(* first.  A float is such a number scaled by 2^-FracBits whose set bits   *)
(* span at most MantBits positions (IEEE 754 binary64; every value here is *)
(* far from the subnormal and overflow ranges).                            *)
(***************************************************************************)
FracBits == 58
MantBits == 53

RECURSIVE Trim(_)
Trim(b) == IF b # << >> /\ b[Len(b)] = 0 THEN Trim(SubSeq(b, 1, Len(b) - 1)) ELSE b

RECURSIVE NatToBits(_)
NatToBits(n) == IF n = 0 THEN << >> ELSE << n % 2 >> \o NatToBits(n \div 2)

RECURSIVE BitsToNat(_)
BitsToNat(b) == IF b = << >> THEN 0 ELSE Head(b) + 2 * BitsToNat(Tail(b))

Zeros(n) == [k \in 1..n |-> 0]

RECURSIVE MulCarry(_, _, _, _)
MulCarry(b, k, i, c) ==
    IF i > Len(b) THEN NatToBits(c)
    ELSE LET t == b[i] * k + c
         IN  << t % 2 >> \o MulCarry(b, k, i + 1, t \div 2)

\* b * k for a small natural k, exactly.
MulSmall(b, k) == Trim(MulCarry(b, k, 1, 0))

RECURSIVE AddCarry(_, _, _, _)
AddCarry(a, b, i, c) ==
    IF i > Len(a) /\ i > Len(b) THEN NatToBits(c)
    ELSE LET t == (IF i <= Len(a) THEN a[i] ELSE 0)
                  + (IF i <= Len(b) THEN b[i] ELSE 0) + c
         IN  << t % 2 >> \o AddCarry(a, b, i + 1, t \div 2)

\* a + b, exactly.
AddBits(a, b) == Trim(AddCarry(a, b, 1, 0))

\* b with its low n bits dropped, rounded to nearest, ties to even
\* (the result counts units of 2^n).
RoundShift(b, n) ==
    IF n <= 0 THEN b
    ELSE LET kept == SliceFrom(b, n)
             guard == IF n <= Len(b) THEN b[n] ELSE 0
             sticky == \E k \in 1..Min(n - 1, Len(b)) : b[k] = 1
             odd == kept # << >> /\ kept[1] = 1
         IN  IF guard = 1 /\ (sticky \/ odd)
             THEN AddBits(kept, << 1 >>) ELSE Trim(kept)

\* The binary64 nearest to the exact value b (round half to even).
RoundDouble(b) ==
    LET t == Trim(b)
        drop == Len(t) - MantBits
    IN  IF drop <= 0 THEN t ELSE Zeros(drop) \o RoundShift(t, drop)

\* float * int and int + float, each correctly rounded.
FloatMulInt(x, k) == RoundDouble(MulSmall(x, k))
IntAddFloat(k, x) == RoundDouble(AddBits(Zeros(FracBits) \o NatToBits(k), x))

\* A bug: quantize with rounding=ROUND_DOWN.
QuantizeDown(x) == BitsToNat(Trim(SliceFrom(MulSmall(x, 100), FracBits)))

\* Decimal(x).quantize(Decimal('1.00')) under the default context
\* (ROUND_HALF_EVEN), as a number of cents.  Decimal(float) is exact.
Quantize(x) == BitsToNat(RoundShift(MulSmall(x, 100), FracBits))

HexDigit(h) == [k \in 1..4 |-> (h \div (2 ^ (k - 1))) % 2]

RECURSIVE HexToBits(_)
\* hex digits, most significant first, to bits.
HexToBits(h) ==
    IF h = << >> THEN << >>
    ELSE HexToBits(Tail(h)) \o HexDigit(Head(h))

\* The float literals .2, .1 and .02: mantissas 0x1999999999999A (2^-55),
\* 0x1999999999999A (2^-56) and 0x147AE147AE147B (2^-58).
Mant02 == HexToBits(<< 1, 9, 9, 9, 9, 9, 9, 9, 9, 9, 9, 9, 9, 10 >>)
Mant002 == HexToBits(<< 1, 4, 7, 10, 14, 1, 4, 7, 10, 14, 1, 4, 7, 11 >>)
RateInternational == Zeros(3) \o Mant02
RateDomestic == Zeros(2) \o Mant02
RateLocal == Mant002

(***************************************************************************)
(* CallInfo.calculate_charge_for_call                                      *)
(***************************************************************************)
calculate_charge_for_call(info) ==
    LET dur == get_call_duration(info)
        type == get_call_type(info)
    IN  IF dur.err # "none" THEN [err |-> dur.err, value |-> 0]
        ELSE IF type = "IndexError" THEN [err |-> type, value |-> 0]
        ELSE LET base == IF type = "international" THEN 1 ELSE 0
                 rate == IF type = "international" THEN RateInternational
                         ELSE IF type = "domestic" THEN RateDomestic
                         ELSE RateLocal
             IN  [err |-> "none",
                  value |-> Quantize(IntAddFloat(base, FloatMulInt(rate, dur.value)))]
(***************************************************************************)
(* CustomerBill                                                            *)
(***************************************************************************)
NoBill ==
    [err |-> "none", account_number |-> "",
     minutes_international |-> 0, num_international |-> 0,
     minutes_domestic |-> 0, num_domestic |-> 0,
     minutes_local |-> 0, num_local |-> 0, charge |-> 0]

\* CustomerBill.set_call_metrics: the duration is computed first, then the
\* call type; either may raise.
set_call_metrics(self, call_info) ==
    LET dur == get_call_duration(call_info)
        type == get_call_type(call_info)
    IN  IF dur.err # "none" THEN [self EXCEPT !.err = dur.err]
        ELSE IF type = "IndexError" THEN [self EXCEPT !.err = type]
        ELSE IF type = "international"
             THEN [self EXCEPT !.minutes_international = @ + dur.value,
                               !.num_international = @ + 1]
        ELSE IF type = "domestic"
             THEN [self EXCEPT !.minutes_domestic = @ + dur.value,
                               !.num_domestic = @ + 1]
        ELSE [self EXCEPT !.minutes_local = @ + dur.value,
                          !.num_local = @ + 1]

\* CustomerBill.__init__.
CustomerBill(call_info) ==
    LET zero == [NoBill EXCEPT !.account_number = call_info.account_number]
        counted == set_call_metrics(zero, call_info)
    IN  IF counted.err # "none" THEN counted
        ELSE [counted EXCEPT !.charge = calculate_charge_for_call(call_info).value]

\* The totals update adds when the accounts agree.
Merge(self, new) ==
    [self EXCEPT !.minutes_international = @ + new.minutes_international,
                 !.minutes_domestic = @ + new.minutes_domestic,
                 !.minutes_local = @ + new.minutes_local,
                 !.num_international = @ + new.num_international,
                 !.num_domestic = @ + new.num_domestic,
                 !.num_local = @ + new.num_local,
                 !.charge = @ + new.charge]

\* A bug: the assertion comes after the additions.
update_assert_last(self, new_call_info) ==
    [err |-> IF self.account_number = new_call_info.account_number
             THEN "none" ELSE "AssertionError",
     self |-> Merge(self, new_call_info),
     other |-> new_call_info]

\* A bug: the domestic minutes of the new bill are added to the local total.
update_wrong_field(self, new_call_info) ==
    IF self.account_number # new_call_info.account_number
    THEN [err |-> "AssertionError", self |-> self, other |-> new_call_info]
    ELSE [err |-> "none",
          self |-> [Merge(self, new_call_info) EXCEPT
                      !.minutes_local = self.minutes_local
                                        + new_call_info.minutes_domestic],
          other |-> new_call_info]

\* CustomerBill.update: the assertion, then the seven additions.  The
\* charge added is new_call_info.charge.quantize(Decimal('1.00')), which
\* leaves a Decimal of two places as it is.  Only self is written.
update(self, new_call_info) ==
    IF self.account_number # new_call_info.account_number
    THEN [err |-> "AssertionError", self |-> self, other |-> new_call_info]
    ELSE [err |-> "none", self |-> Merge(self, new_call_info),
          other |-> new_call_info]

\* CustomerBill.__repr__: the eight columns of an output row.
Repr(bill) ==
    << bill.account_number, bill.minutes_international, bill.num_international,
       bill.minutes_domestic, bill.num_domestic, bill.minutes_local,
       bill.num_local, bill.charge >>

(***************************************************************************)
(* calculate_bills                                                         *)
(*                                                                         *)
(* The dict is a sequence of entries in insertion order.                   *)
(***************************************************************************)
\* dict.get(key): the position of the entry with that key, 0 for None.
DictGet(map, key) ==
    IF \E j \in 1..Len(map) : map[j].key = key
    THEN CHOOSE j \in 1..Len(map) : map[j].key = key
    ELSE 0

\* A bug: the values are returned sorted by account number.
DictValuesSorted(map) ==
    LET Rank(j) == Cardinality({k \in 1..Len(map) :
                      \/ map[k].key = "1" /\ map[j].key # "1"
                      \/ map[k].key = "2" /\ map[j].key = "3"})
    IN  [n \in 1..Len(map) |->
            map[CHOOSE j \in 1..Len(map) : Rank(j) = n - 1].value]

\* list(dict.values()): the values in insertion order.
DictValues(map) == [j \in 1..Len(map) |-> map[j].value]

\* A bug: an existing account's call is merged into the bill added last.
merge_bill_last(map, info, bill) ==
    IF DictGet(map, info.account_number) = 0
    THEN [err |-> "none",
          map |-> Append(map, [key |-> info.account_number, value |-> bill]),
          updated |-> << >>]
    ELSE LET res == update(map[Len(map)].value, bill)
         IN  [err |-> res.err,
              map |-> [map EXCEPT ![Len(map)].value = res.self],
              updated |-> << [self |-> map[Len(map)].value.account_number,
                              other |-> bill.account_number] >>]

\* The if / else of the loop of calculate_bills, for the bill made of info.
\* updated records the call of update, if one was made: the account of its
\* target and of its argument.
merge_bill(map, info, bill) ==
    LET j == DictGet(map, info.account_number)
    IN  IF j = 0
        THEN [err |-> "none",
              map |-> Append(map, [key |-> info.account_number, value |-> bill]),
              updated |-> << >>]
        ELSE LET res == update(map[j].value, bill)
             IN  [err |-> res.err,
                  map |-> [map EXCEPT ![j].value = res.self],
                  updated |-> << [self |-> map[j].value.account_number,
                                  other |-> bill.account_number] >>]

(***************************************************************************)
(* Inputs                                                                  *)
(***************************************************************************)
PhoneChars == {"+", "1", "2"}

\* The strings over PhoneChars of length at most n.
Strings(n) == UNION {[1..k -> PhoneChars] : k \in 0..n}

Time(day, sec, us) == [ok |-> TRUE, day |-> day, sec |-> sec, us |-> us]
BadTime == [ok |-> FALSE, day |-> 0, sec |-> 0, us |-> 0]

Secs == {0, 1, 59, 60, 61, 120, SecondsPerDay - 1}
Micros == {0, 1, 500000, MicrosPerSecond - 1}
Timestamps == {Time(d, sec, us) : d \in 0..MaxDay, sec \in Secs, us \in Micros}

CallInfo(account_number, origination, termination, start, stop) ==
    [account_number |-> account_number,
     origination_number |-> origination,
     termination_number |-> termination,
     call_start |-> start,
     call_stop |-> stop]

NoInfo == CallInfo("", << >>, << >>, BadTime, BadTime)

\* Numbers of the three kinds of call from Origin.
Origin == << "+", "1", "5", "5", "5", "7" >>
TermInternational == << "+", "2", "5", "5", "5", "8" >>
TermDomestic == << "+", "1", "6", "6", "6", "8" >>
TermLocal == << "+", "1", "5", "5", "5", "8" >>
Terms == {TermInternational, TermDomestic, TermLocal}

pnIdle == phone_number = << >> /\ parsed = PhoneNumber(<< "1" >>) /\ pn_done = FALSE
ctIdle ==
    /\ origination_number = << >> /\ termination_number = << >>
    /\ call_type = "" /\ ct_done = FALSE
durIdle ==
    /\ call_start = BadTime /\ call_stop = BadTime
    /\ duration = [err |-> "none", value |-> 0] /\ dur_done = FALSE
chIdle ==
    /\ ch_info = NoInfo /\ ch_charge = [err |-> "none", value |-> 0]
    /\ ch_done = FALSE
ubIdle ==
    /\ ub_self = NoBill /\ ub_other = NoBill /\ ub_before = NoBill
    /\ ub_other_before = NoBill /\ ub_raised = FALSE /\ ub_calls = 0
runIdle ==
    /\ lines = << >> /\ pc = "idle" /\ call_infos = << >>
    /\ account_number_to_customer_bill_map = << >> /\ bills = << >>
    /\ error = "none" /\ out_open = FALSE /\ out_lines = << >>
    /\ last_update = << >> /\ pos = 0

(***************************************************************************)
(* PhoneNumber(phone_number) on any string                                 *)
(***************************************************************************)
InitParse ==
    /\ phone_number \in Strings(MaxPhoneLen)
    /\ parsed = PhoneNumber(<< "1" >>) /\ pn_done = FALSE
    /\ ctIdle /\ durIdle /\ chIdle /\ ubIdle /\ runIdle

Parse ==
    /\ ~pn_done
    /\ parsed' = PhoneNumber(phone_number)
    /\ pn_done' = TRUE
    /\ UNCHANGED << phone_number, ctVars, durVars, chVars, ubVars, runVars >>

NextParse == Parse
SpecParse == InitParse /\ [][NextParse]_vars

\* C9: PhoneNumber(s) removes exactly one leading "+" when there is one and
\* nothing else, then takes character 0 as the country code, characters 1-3
\* as the area code and the rest as the number; parts out of range are
\* empty and nothing is raised.
C9_StripsOneLeadingPlus ==
    pn_done =>
        LET t == IF phone_number # << >> /\ Head(phone_number) = "+"
                 THEN Tail(phone_number) ELSE phone_number
        IN  /\ parsed.err = "none"
            /\ parsed.country_code = Slice(t, 0, 1)
            /\ parsed.area_code = Slice(t, 1, 4)
            /\ parsed.number = SliceFrom(t, 4)

(***************************************************************************)
(* get_call_type on any pair of numbers                                    *)
(***************************************************************************)
InitType ==
    /\ origination_number \in Strings(MaxPairLen)
    /\ termination_number \in Strings(MaxPairLen)
    /\ call_type = "" /\ ct_done = FALSE
    /\ pnIdle /\ durIdle /\ chIdle /\ ubIdle /\ runIdle

Classify ==
    /\ ~ct_done
    /\ call_type' = get_call_type(
           CallInfo("1", origination_number, termination_number, BadTime, BadTime))
    /\ ct_done' = TRUE
    /\ UNCHANGED << origination_number, termination_number,
                    pnVars, durVars, chVars, ubVars, runVars >>

NextType == Classify
SpecType == InitType /\ [][NextType]_vars

BothParse ==
    /\ PhoneNumber(origination_number).err = "none"
    /\ PhoneNumber(termination_number).err = "none"

SameCountry ==
    PhoneNumber(origination_number).country_code
        = PhoneNumber(termination_number).country_code

SameArea ==
    PhoneNumber(origination_number).area_code
        = PhoneNumber(termination_number).area_code

\* C3: for numbers that parse, the call is international exactly when the
\* country codes differ (whatever the area codes), domestic exactly when
\* the country codes agree and the area codes differ, local otherwise;
\* identical numbers are local.
C3_CallType ==
    (ct_done /\ BothParse) =>
        /\ ~SameCountry => call_type = "international"
        /\ (SameCountry /\ ~SameArea) => call_type = "domestic"
        /\ (SameCountry /\ SameArea) => call_type = "local"
        /\ origination_number = termination_number => call_type = "local"

\* The country codes differ, the area codes are equal and not empty.
C3_Witness ==
    /\ ct_done /\ BothParse /\ ~SameCountry /\ SameArea
    /\ PhoneNumber(origination_number).area_code # << >>
    /\ call_type = "international"

(***************************************************************************)
(* get_call_duration on any pair of timestamps                             *)
(***************************************************************************)
InitDuration ==
    /\ call_start \in Timestamps
    /\ call_stop \in Timestamps
    /\ duration = [err |-> "none", value |-> 0] /\ dur_done = FALSE
    /\ pnIdle /\ ctIdle /\ chIdle /\ ubIdle /\ runIdle

GetDuration ==
    /\ ~dur_done
    /\ duration' = get_call_duration(
           CallInfo("1", Origin, TermLocal, call_start, call_stop))
    /\ dur_done' = TRUE
    /\ UNCHANGED << call_start, call_stop, pnVars, ctVars, chVars, ubVars, runVars >>

NextDuration == GetDuration
SpecDuration == InitDuration /\ [][NextDuration]_vars

\* The elapsed time stop - start is ElapsedSeconds whole seconds (rounded
\* down) and ElapsedMicros further microseconds.
ElapsedSeconds ==
    (call_stop.day - call_start.day) * SecondsPerDay
    + (call_stop.sec - call_start.sec)
    - (IF call_stop.us < call_start.us THEN 1 ELSE 0)

ElapsedMicros ==
    IF call_stop.us < call_start.us
    THEN call_stop.us - call_start.us + MicrosPerSecond
    ELSE call_stop.us - call_start.us

\* v is the smallest whole number of minutes not less than n seconds.
IsCeilingMinutes(v, n) ==
    v * SecondsPerMinute >= n /\ (v - 1) * SecondsPerMinute < n

C5_RoundsUpElapsedTime ==
    dur_done =>
        /\ (ElapsedSeconds = 0 /\ ElapsedMicros = 0) => duration.value = 0
        /\ (ElapsedSeconds > 0 \/ (ElapsedSeconds = 0 /\ ElapsedMicros > 0)) =>
              /\ duration.value >= 1
              /\ IsCeilingMinutes(duration.value,
                     ElapsedSeconds + (IF ElapsedMicros > 0 THEN 1 ELSE 0))

(***************************************************************************)
(* calculate_charge_for_call for every duration and call type              *)
(***************************************************************************)
MaxDuration == (SecondsPerDay - 1 + SecondsPerMinute - 1) \div SecondsPerMinute

\* Stop times, for a start at second 0, of every duration 0..MaxDuration.
StopSecs ==
    {SecondsPerMinute * d : d \in 0..(MaxDuration - 1)} \cup {SecondsPerDay - 1}

InitCharge ==
    /\ \E t \in Terms, sec \in StopSecs :
          ch_info = CallInfo("1", Origin, t, Time(0, 0, 0), Time(0, sec, 0))
    /\ ch_charge = [err |-> "none", value |-> 0] /\ ch_done = FALSE
    /\ pnIdle /\ ctIdle /\ durIdle /\ ubIdle /\ runIdle

Charge ==
    /\ ~ch_done
    /\ ch_charge' = calculate_charge_for_call(ch_info)
    /\ ch_done' = TRUE
    /\ UNCHANGED << ch_info, pnVars, ctVars, durVars, ubVars, runVars >>

NextCharge == Charge
SpecCharge == InitCharge /\ [][NextCharge]_vars

\* base + rate * d in cents, exactly.
ExactCents(type, d) ==
    IF type = "international" THEN 100 + 20 * d
    ELSE IF type = "domestic" THEN 10 * d
    ELSE 2 * d

\* C6: the charge is base + rate * duration to the cent, for every call
\* type and every duration 0..1440; duration 0 is charged the base.
C6_ChargeExact ==
    ch_done =>
        /\ ch_charge.err = "none"
        /\ ch_charge.value =
              ExactCents(get_call_type(ch_info), get_call_duration(ch_info).value)
        /\ get_call_duration(ch_info).value = 0 =>
              ch_charge.value =
                  (IF get_call_type(ch_info) = "international" THEN 100 ELSE 0)

\* The longest international call costs 289.00.
C6_Witness ==
    /\ ch_done /\ get_call_type(ch_info) = "international"
    /\ get_call_duration(ch_info).value = 1440
    /\ ch_charge.value = 28900
(***************************************************************************)
(* CustomerBill.update called on any two bills                             *)
(***************************************************************************)
UpdateInfos ==
    {CallInfo(a, Origin, t, Time(0, 0, 0), Time(0, sec, 0)) :
        a \in {"1", "2"}, t \in Terms, sec \in {120, 121}}

InitUpdate ==
    /\ \E info \in UpdateInfos : ub_self = CustomerBill(info)
    /\ ub_other = NoBill /\ ub_before = NoBill /\ ub_other_before = NoBill
    /\ ub_raised = FALSE /\ ub_calls = 0
    /\ pnIdle /\ ctIdle /\ durIdle /\ chIdle /\ runIdle

\* other_bill = CustomerBill(call_info); bill.update(other_bill)
CallUpdate ==
    /\ ub_calls < MaxUpdates
    /\ \E info \in UpdateInfos :
       \E other \in {CustomerBill(info)} :
       \E res \in {update(ub_self, other)} :
          /\ ub_before' = ub_self
          /\ ub_other_before' = other
          /\ ub_self' = res.self
          /\ ub_other' = res.other
          /\ ub_raised' = (res.err = "AssertionError")
    /\ ub_calls' = ub_calls + 1
    /\ UNCHANGED << pnVars, ctVars, durVars, chVars, runVars >>

NextUpdate == CallUpdate
SpecUpdate == InitUpdate /\ [][NextUpdate]_vars

\* C7: update with a bill of another account raises AssertionError and
\* leaves both bills as they were.
C7_CrossAccountUpdateFails ==
    (ub_calls > 0 /\ ub_before.account_number # ub_other_before.account_number) =>
        /\ ub_raised
        /\ ub_self = ub_before
        /\ ub_other = ub_other_before

\* A failed merge into a bill that earlier took a merge of its own account.
C7_Witness ==
    /\ ub_calls = 2 /\ ub_raised
    /\ ub_before.account_number # ub_other_before.account_number
    /\ ub_before.num_international + ub_before.num_domestic
         + ub_before.num_local = 2
    /\ ub_self = ub_before

(***************************************************************************)
(* run_billing                                                             *)
(*                                                                         *)
(* A line of the file is held as the fields row.split(",") makes of it;    *)
(* the first line is the header.                                           *)
(***************************************************************************)
Header == << "header" >>

Row(a, t, sec) == << a, Origin, t, Time(0, 0, 0), Time(0, sec, 0) >>

WellFormedRows ==
    { Row("1", TermInternational, 120), Row("1", TermDomestic, 121),
      Row("2", TermDomestic, 120), Row("2", TermLocal, 61),
      Row("3", TermInternational, 60), Row("3", TermLocal, 120) }

\* A row of four fields, a row of six fields, a row whose call_stop is no
\* timestamp.
ShortRow == << "1", Origin, TermLocal, Time(0, 0, 0) >>
LongRow == << "2", Origin, TermDomestic, Time(0, 0, 0), Time(0, 120, 0), "x" >>
BadTimeRow == << "3", Origin, TermLocal, Time(0, 0, 0), BadTime >>

Rows == WellFormedRows \cup {ShortRow, LongRow, BadTimeRow}

Files ==
    {<< >>} \cup {<< Header >> \o rs : rs \in UNION {[1..n -> Rows] : n \in 0..MaxRows}}

InitRun ==
    /\ lines \in Files
    /\ pc = "split" /\ call_infos = << >>
    /\ account_number_to_customer_bill_map = << >> /\ bills = << >>
    /\ error = "none" /\ out_open = FALSE /\ out_lines = << >>
    /\ last_update = << >> /\ pos = 1
    /\ pnIdle /\ ctIdle /\ durIdle /\ chIdle /\ ubIdle

\* rows = lines[1:]
rows == SliceFrom(lines, 1)

\* One iteration of the loop over rows: values[0] .. values[4] raise
\* IndexError on a row of fewer than five fields; further fields are not
\* looked at.
SplitRow ==
    /\ pc = "split" /\ pos <= Len(rows)
    /\ LET values == rows[pos]
       IN  IF Len(values) < 5
           THEN /\ error' = "IndexError" /\ pc' = "failed"
                /\ UNCHANGED << call_infos, pos >>
           ELSE /\ call_infos' = Append(call_infos,
                       CallInfo(values[1], values[2], values[3], values[4], values[5]))
                /\ pos' = pos + 1
                /\ UNCHANGED << error, pc >>
    /\ UNCHANGED << lines, account_number_to_customer_bill_map, bills,
                    out_open, out_lines, last_update >>
    /\ UNCHANGED << pnVars, ctVars, durVars, chVars, ubVars >>

\* bills = calculate_bills(call_infos): the map starts empty.
CallCalculateBills ==
    /\ pc = "split" /\ pos > Len(rows)
    /\ pc' = "calc" /\ pos' = 1
    /\ account_number_to_customer_bill_map' = << >>
    /\ UNCHANGED << lines, call_infos, bills, error, out_open, out_lines, last_update >>
    /\ UNCHANGED << pnVars, ctVars, durVars, chVars, ubVars >>

\* One iteration of the loop of calculate_bills: bill = CustomerBill(info),
\* which may raise, then the if / else.
CalcStep ==
    /\ pc = "calc" /\ pos <= Len(call_infos)
    /\ \E bill \in {CustomerBill(call_infos[pos])} :
          IF bill.err # "none"
          THEN /\ error' = bill.err /\ pc' = "failed"
               /\ UNCHANGED << account_number_to_customer_bill_map, last_update, pos >>
          ELSE \E res \in {merge_bill(account_number_to_customer_bill_map,
                                      call_infos[pos], bill)} :
               /\ account_number_to_customer_bill_map' = res.map
               /\ last_update' = res.updated
               /\ error' = res.err
               /\ IF res.err = "none"
                  THEN pc' = pc /\ pos' = pos + 1
                  ELSE pc' = "failed" /\ pos' = pos
    /\ UNCHANGED << lines, call_infos, bills, out_open, out_lines >>
    /\ UNCHANGED << pnVars, ctVars, durVars, chVars, ubVars >>

\* return list(account_number_to_customer_bill_map.values())
ReturnBills ==
    /\ pc = "calc" /\ pos > Len(call_infos)
    /\ bills' = DictValues(account_number_to_customer_bill_map)
    /\ pc' = "open"
    /\ UNCHANGED << lines, call_infos, account_number_to_customer_bill_map,
                    error, out_open, out_lines, last_update, pos >>
    /\ UNCHANGED << pnVars, ctVars, durVars, chVars, ubVars >>

\* open("output.csv", "w")
OpenOutput ==
    /\ pc = "open"
    /\ out_open' = TRUE /\ out_lines' = << >>
    /\ pc' = "header"
    /\ UNCHANGED << lines, call_infos, account_number_to_customer_bill_map,
                    bills, error, last_update, pos >>
    /\ UNCHANGED << pnVars, ctVars, durVars, chVars, ubVars >>

\* f.write(headers)
WriteHeader ==
    /\ pc = "header"
    /\ out_lines' = Append(out_lines, Header)
    /\ pc' = "rows" /\ pos' = 1
    /\ UNCHANGED << lines, call_infos, account_number_to_customer_bill_map,
                    bills, error, out_open, last_update >>
    /\ UNCHANGED << pnVars, ctVars, durVars, chVars, ubVars >>

\* f.write(str(bill) + "\n")
WriteBill ==
    /\ pc = "rows" /\ pos <= Len(bills)
    /\ out_lines' = Append(out_lines, Repr(bills[pos]))
    /\ pos' = pos + 1
    /\ UNCHANGED << lines, pc, call_infos, account_number_to_customer_bill_map,
                    bills, error, out_open, last_update >>
    /\ UNCHANGED << pnVars, ctVars, durVars, chVars, ubVars >>

\* The with block ends and run_billing returns.
Finish ==
    /\ pc = "rows" /\ pos > Len(bills)
    /\ pc' = "done"
    /\ UNCHANGED << lines, call_infos, account_number_to_customer_bill_map,
                    bills, error, out_open, out_lines, last_update, pos >>
    /\ UNCHANGED << pnVars, ctVars, durVars, chVars, ubVars >>

Next ==
    \/ SplitRow
    \/ CallCalculateBills
    \/ CalcStep
    \/ ReturnBills
    \/ OpenOutput
    \/ WriteHeader
    \/ WriteBill
    \/ Finish

Spec == InitRun /\ [][Next]_vars

\* calculate_bills has returned.
Returned == pc \in {"open", "header", "rows", "done"}

Accounts(infos) == [k \in 1..Len(infos) |-> infos[k].account_number]

RECURSIVE FirstSeen(_)
\* The distinct members of s, each at its first place.
FirstSeen(s) ==
    IF s = << >> THEN << >>
    ELSE LET f == FirstSeen(SubSeq(s, 1, Len(s) - 1))
             last == s[Len(s)]
         IN  IF \E k \in 1..Len(f) : f[k] = last THEN f ELSE Append(f, last)

\* C1: calculate_bills returns one bill per distinct account number of its
\* input, in the order in which the accounts first appear.
C1_OneBillPerAccountInOrder ==
    Returned =>
        /\ Accounts(bills) = FirstSeen(Accounts(call_infos))
        /\ Len(bills) = Cardinality({call_infos[k].account_number :
                                        k \in 1..Len(call_infos)})

\* Two accounts, the first of them seen again after the second.
C1_Witness ==
    /\ Returned
    /\ Accounts(call_infos) = << "2", "1", "2" >>
    /\ Accounts(bills) = << "2", "1" >>

\* What info adds to the total `what` of calls of kind type of account a.
Contribution(info, a, type, what) ==
    IF info.account_number # a THEN 0
    ELSE IF what = "charge" THEN calculate_charge_for_call(info).value
    ELSE IF get_call_type(info) # type THEN 0
    ELSE IF what = "minutes" THEN get_call_duration(info).value
    ELSE 1

RECURSIVE Total(_, _, _, _)
Total(infos, a, type, what) ==
    IF infos = << >> THEN 0
    ELSE Contribution(Head(infos), a, type, what) + Total(Tail(infos), a, type, what)

\* C2: each bill calculate_bills returns holds, per kind of call, the sum of
\* the durations and the number of its account's calls, and as charge the
\* sum of the rounded charges of its account's calls; calls of other
\* accounts add nothing.
C2_BillTotals ==
    pc = "open" =>
        \A k \in 1..Len(bills) :
            LET b == bills[k]
                a == b.account_number
            IN  /\ b.minutes_international = Total(call_infos, a, "international", "minutes")
                /\ b.num_international = Total(call_infos, a, "international", "num")
                /\ b.minutes_domestic = Total(call_infos, a, "domestic", "minutes")
                /\ b.num_domestic = Total(call_infos, a, "domestic", "num")
                /\ b.minutes_local = Total(call_infos, a, "local", "minutes")
                /\ b.num_local = Total(call_infos, a, "local", "num")
                /\ b.charge = Total(call_infos, a, "", "charge")

\* Account 1 made an international call of 2 minutes (1.40) and a domestic
\* call of 3 minutes (0.30), in between calls of another account.
C2_Witness ==
    /\ pc = "open" /\ Len(bills) = 2 /\ Len(call_infos) = 3
    /\ bills[1].account_number = "1"
    /\ call_infos[2].account_number = "2"
    /\ bills[1].minutes_international = 2 /\ bills[1].num_international = 1
    /\ bills[1].minutes_domestic = 3 /\ bills[1].num_domestic = 1
    /\ bills[1].charge = 170

\* A row is malformed: not exactly five fields, or a timestamp that does
\* not parse.
Malformed(row) ==
    \/ Len(row) # 5
    \/ ~row[4].ok
    \/ ~row[5].ok

\* C8: with a malformed row in the input the run fails and the output file
\* is never opened or written.
C8_MalformedRowFailsRun ==
    (\E k \in 1..Len(rows) : Malformed(rows[k])) =>
        /\ ~out_open
        /\ out_lines = << >>
        /\ pc # "done"

\* C10: while calculate_bills runs and after, every entry of the map is
\* keyed by the account number of its bill, update is only called with a
\* bill of the target's account, and its assertion never fails.
C10_MapKeyedByAccount ==
    /\ \A k \in 1..Len(account_number_to_customer_bill_map) :
          account_number_to_customer_bill_map[k].key
              = account_number_to_customer_bill_map[k].value.account_number
    /\ \A k \in 1..Len(last_update) : last_update[k].self = last_update[k].other
    /\ error # "AssertionError"

\* update was called on the bill of the first of two accounts.
C10_Witness ==
    /\ pc = "calc"
    /\ Len(account_number_to_customer_bill_map) = 2
    /\ last_update # << >>
    /\ last_update[1].self = account_number_to_customer_bill_map[1].key
    /\ last_update[1].other = account_number_to_customer_bill_map[1].key
====
